---- MODULE Spec2Model ----
(***************************************************************************)
(* Model of the food-tracking backend (backend/server.py): the users and   *)
(* food_logs collections, the UTC clock, and the handlers register_user,   *)
(* log_food (with update_user_streak and check_and_award_badges),          *)
(* delete_food_log, get_food_logs, get_user_stats and analyze_food.        *)
(*                                                                         *)
(* Spec           every handler runs to completion before the next one     *)
(*                starts (sequential requests); the clock moves between    *)
(*                requests.                                                *)
(* SpecLong       as Spec, restricted to the requests of registered users  *)
(*                with a valid weight, so that long logging histories are  *)
(*                reached.                                                 *)
(* SpecFrame      as Spec, together with the requests that only read       *)
(*                (get_food_logs, get_user_stats, analyze_food).           *)
(* SpecMilestone  one registered user logs foods until every badge         *)
(*                threshold is reached.                                    *)
(* SpecList       one registered user logs foods and the logs are listed   *)
(*                with every kind of date_filter.                          *)
(* SpecGoal       register_user requests over body metrics and goal        *)
(*                weights.                                                 *)
(* SpecAnalyze    analyze_food requests over images, provider outcomes and *)
(*                weights.                                                 *)
(* SpecClock      entries are logged at several times of the day and     *)
(*                listed by day.                                           *)
(* SpecDisplay    store_nutrition_display requests are interleaved at the  *)
(*                awaits on the database, and the display is read.         *)
(* SpecRegister   register_user requests are interleaved at the awaits on  *)
(*                the database.                                            *)
(* SpecConc       log_food requests are interleaved at every await on the  *)
(*                database; a request is assumed to complete within one    *)
(*                civil day, so the clock moves only while no request is   *)
(*                in flight.                                               *)
(***************************************************************************)
EXTENDS Integers, Sequences, FiniteSets, TLC

\* ---------------------------------------------------------------- bounds
MaxLogs == 3        \* capacity of the food_logs collection (Spec, SpecLong)
MaxDay == 1         \* last civil day the clock reaches under Spec
MaxLongDay == 2     \* last civil day the clock reaches under SpecLong
MaxTotal == 3       \* cap on total_foods_logged of a profile under Spec
MaxLongTotal == 14  \* cap on total_foods_logged of a profile under SpecLong
MaxConcLogs == 3    \* capacity of the food_logs collection under SpecConc
MaxConcDay == 1     \* last civil day the clock reaches under SpecConc
MaxListLogs == 101  \* capacity of the food_logs collection under SpecList
MaxListDay == 1     \* last civil day the clock reaches under SpecList
MaxFrameLogs == 2   \* capacity of the food_logs collection under SpecFrame
MaxFrameDay == 1    \* last civil day the clock reaches under SpecFrame
MaxFrameTotal == 2  \* cap on total_foods_logged of a profile under SpecFrame
MaxMilestoneTotal == 100  \* cap on total_foods_logged under SpecMilestone
MaxMilestoneDay == 1      \* last civil day the clock reaches under SpecMilestone
MaxClockLogs == 2         \* capacity of the food_logs collection (SpecClock)
MaxClockDay == 1          \* last civil day the clock reaches under SpecClock
MaxStored == 11           \* store_nutrition_display requests made under SpecDisplay

\* ------------------------------------------------------ program constants
WeekWarriorStreak == 7
MonthMasterStreak == 30
CenturyTrackerFoods == 100
FirstLogFoods == 1
ListLimit == 100    \* to_list(length=100) of get_food_logs
DisplayLimit == 10  \* .skip(10) of store_nutrition_display

\* uuid4 values handed out by register_user, and the user_id log_food uses
\* when the form carries none (never the id of a profile).
RegIds == {"u1"}
DefaultUser == "default_user"

LogIds == 1..MaxLogs
ConcLogIds == 1..MaxConcLogs
FrameLogIds == 1..MaxFrameLogs
NoId == 0
Weights == {0, 100}

\* Amounts of kcal and grams of nutrients are integers counting hundredths
\* (5206 is 52.06 kcal); weight_grams counts whole grams.
\* the nutrition fields of a log-food form
Portions == {[total_calories |-> 5206, protein |-> 28, carbs |-> 1382, fat |-> 18]}

\* an Optional[float] of a request body: absent (None) or a number
Absent == [given |-> FALSE, value |-> 0]
Given(x) == [given |-> TRUE, value |-> x]

\* a UserRegistration body (weight in kg, height in cm, age in years)
ExampleUser ==
  [email |-> "a@example.com",
   weight |-> 75, height |-> 180, age |-> 30, gender |-> "male",
   activity_level |-> "moderately_active", goal_weight |-> Absent]
Procs == {"c1", "c2"}

VARIABLES
  users,      \* db.users: user_id -> profile
  food_logs,  \* db.food_logs: set of entries (see FoodLog)
  now,        \* civil (UTC) day of datetime.utcnow()
  lastOp,     \* the last request served and its HTTP response (Spec, SpecLong)
  pre,        \* history: what the last log_food call found when it started
  firstDay,   \* history: day of a user's first successful log_food call
  emitted,    \* history: how often a badge was returned as newly earned
  pc,         \* SpecConc: position of each in-flight log_food call
  loc,        \* SpecConc: local variables and response of each log_food call
  snap,       \* SpecConc: history, the profile when the round of calls began
  nutrition_display,  \* db.nutrition_display: set of records (see DisplayRecord)
  clock,      \* SpecDisplay: the last reading of datetime.utcnow(), in milliseconds
  stored      \* history: every record ever inserted into db.nutrition_display

vars == <<users, food_logs, now, lastOp, pre, firstDay, emitted, pc, loc, snap,
          nutrition_display, clock, stored>>

displayVars == <<nutrition_display, clock, stored>>

BadgeIds == {"first_log", "week_warrior", "month_master", "century_tracker"}

\* ------------------------------------------------------------- helpers
Range(s) == {s[i] : i \in 1..Len(s)}

Min(a, b) == IF a < b THEN a ELSE b

Abs(a) == IF a < 0 THEN -a ELSE a

\* round(num / den) of Python 3 for den > 0: to the nearest integer, a tie
\* goes to the even one
RoundHalfEven(num, den) ==
  LET q == num \div den
      r == num % den
  IN IF 2 * r < den THEN q
     ELSE IF 2 * r > den THEN q + 1
     ELSE IF q % 2 = 0 THEN q ELSE q + 1

\* faulty variant: the digits after the first decimal are cut off
Round1Down(num, den) == 10 * (num \div (den * 10))

\* round(num / den, 1) of an amount in hundredths: a multiple of 10
Round1(num, den) == 10 * RoundHalfEven(num, den * 10)

\* str.lower() on the strings the requests carry
Lower(s) ==
  CASE s = "Male" -> "male"
    [] s = "MODERATELY_ACTIVE" -> "moderately_active"
    [] OTHER -> s

\* faulty variant: the constants of the two branches are swapped
CalculateBmrSwapped(weight, height, age, gender) ==
  40 * weight + 25 * height - 20 * age
    + (IF Lower(gender) = "male" THEN -644 ELSE 20)

\* calculate_bmr, in quarters of a kcal (6.25 * height is 25 quarters per cm)
CalculateBmr(weight, height, age, gender) ==
  40 * weight + 25 * height - 20 * age
    + (IF Lower(gender) = "male" THEN 20 ELSE -644)

\* get_activity_multiplier, in fortieths (1.2 = 48/40, 1.375 = 55/40,
\* 1.55 = 62/40, 1.725 = 69/40, 1.9 = 76/40)
GetActivityMultiplier(activity_level) ==
  CASE Lower(activity_level) = "sedentary" -> 48
    [] Lower(activity_level) = "lightly_active" -> 55
    [] Lower(activity_level) = "moderately_active" -> 62
    [] Lower(activity_level) = "very_active" -> 69
    [] Lower(activity_level) = "extra_active" -> 76
    [] OTHER -> 48

\* register_user, lines 301-326: round(daily_goal), where tdee is
\* bmr * multiplier / 160 and the adjustment weight_diff * 7700 / 84 is
\* weight_diff * 275 / 3; "if user_data.goal_weight" is false for None and 0
DailyCalorieGoal(data) ==
  LET bmr == CalculateBmr(data.weight, data.height, data.age, data.gender)
      activity_multiplier == GetActivityMultiplier(data.activity_level)
      weight_diff == data.goal_weight.value - data.weight
  IN IF data.goal_weight.given /\ data.goal_weight.value # 0
       THEN RoundHalfEven(bmr * activity_multiplier * 3 + weight_diff * 275 * 160, 480)
       ELSE RoundHalfEven(bmr * activity_multiplier, 160)

\* register_user, line 294: users.find_one({email}) finds a document
EmailRegistered(us, email) == \E v \in DOMAIN us : us[v].email = email

\* register_user: the document inserted into db.users
NewUser(data, d) ==
  [email |-> data.email, age |-> data.age, height |-> data.height, weight |-> data.weight,
   gender |-> data.gender, activity_level |-> data.activity_level,
   goal_weight |-> data.goal_weight,
   daily_calorie_goal |-> DailyCalorieGoal(data),
   streak_count |-> 0, total_foods_logged |-> 0, badges |-> <<>>, created_at |-> d]

\* log_food, line 549: (total_calories / weight_grams) * 100 as a fraction
CaloriesPer100g(total_calories, weight_grams) ==
  [num |-> total_calories * 100, den |-> weight_grams]

\* log_food, lines 545-557: the document inserted into db.food_logs
\* logged_at = datetime.utcnow() is kept as the civil day (logged_at) and
\* the time of that day in milliseconds (logged_time), the resolution
\* of a stored date
FoodLog(id, u, w, portion, d, t) ==
  [log_id |-> id, user_id |-> u,
   calories_per_100g |-> CaloriesPer100g(portion.total_calories, w),
   weight_grams |-> w, total_calories |-> portion.total_calories,
   protein |-> portion.protein, carbs |-> portion.carbs, fat |-> portion.fat,
   logged_at |-> d, logged_time |-> t]

\* datetime.combine(day, time) in milliseconds since day 0, 00:00:00
MsPerDay == 24 * 60 * 60 * 1000
Instant(d, t) == d * MsPerDay + t
LoggedInstant(l) == Instant(l.logged_at, l.logged_time)

\* datetime.min.time(): 00:00:00
Midnight == 0

\* start_date.replace(hour=23, minute=59, second=59): 23:59:59.000
EndOfDay == ((23 * 60 + 59) * 60 + 59) * 1000

\* food_logs.find_one({user_id, logged_at in [d 00:00, d+1 00:00)})
HasLogOn(logs, u, d) ==
  \E l \in logs : /\ l.user_id = u
                  /\ LoggedInstant(l) >= Instant(d, Midnight)
                  /\ LoggedInstant(l) < Instant(d + 1, Midnight)

\* faulty variant: the filter {user_id} is missing, every profile is incremented
IncTotalFoodsAll(us, u) ==
  [v \in DOMAIN us |-> [us[v] EXCEPT !.total_foods_logged = @ + 1]]

\* users.update_one({user_id}, {$inc: {total_foods_logged: 1}})
IncTotalFoods(us, u) ==
  IF u \in DOMAIN us
    THEN [us EXCEPT ![u].total_foods_logged = @ + 1]
    ELSE us

\* faulty variant: the reset branch is missing, every call of a day with a log increments
StreakValueNoReset(streak, todayLogs, yesterdayLogs) ==
  IF ~todayLogs THEN streak ELSE streak + 1

\* the value update_user_streak writes: $inc by 1 when there is an entry
\* for yesterday, $set to 1 otherwise; untouched when nothing is logged today
StreakValue(streak, todayLogs, yesterdayLogs) ==
  IF ~todayLogs THEN streak
  ELSE IF yesterdayLogs THEN streak + 1
  ELSE 1

\* faulty variant: the range of the "yesterday" query starts at today's midnight
UpdateUserStreakSameDay(us, logs, u, d) ==
  IF u \notin DOMAIN us THEN us
  ELSE [us EXCEPT ![u].streak_count =
          StreakValue(@, HasLogOn(logs, u, d), HasLogOn(logs, u, d))]

UpdateUserStreak(us, logs, u, d) ==
  IF u \notin DOMAIN us THEN us
  ELSE [us EXCEPT ![u].streak_count =
          StreakValue(@, HasLogOn(logs, u, d), HasLogOn(logs, u, d - 1))]

\* faulty variant: the test "not in current_badges" is missing
EarnedAgain(value, threshold, badge, current) ==
  IF value >= threshold THEN <<badge>> ELSE <<>>

\* faulty variant: the threshold itself does not earn the badge
EarnedAbove(value, threshold, badge, current) ==
  IF value > threshold /\ badge \notin Range(current) THEN <<badge>> ELSE <<>>

\* one threshold test of check_and_award_badges
Earned(value, threshold, badge, current) ==
  IF value >= threshold /\ badge \notin Range(current) THEN <<badge>> ELSE <<>>

\* the new_badges list check_and_award_badges builds from a user document
NewBadges(user) ==
  Earned(user.total_foods_logged, FirstLogFoods, "first_log", user.badges)
  \o Earned(user.streak_count, WeekWarriorStreak, "week_warrior", user.badges)
  \o Earned(user.streak_count, MonthMasterStreak, "month_master", user.badges)
  \o Earned(user.total_foods_logged, CenturyTrackerFoods, "century_tracker", user.badges)

\* {$addToSet: {badges: {$each: new}}}
RECURSIVE AddToSet(_, _)
AddToSet(badges, new) ==
  IF new = <<>> THEN badges
  ELSE AddToSet(IF Head(new) \in Range(badges) THEN badges
                ELSE Append(badges, Head(new)),
                Tail(new))

\* faulty variant: the badges are written with $set instead of $addToSet
CheckAndAwardBadgesSet(us, u) ==
  IF u \notin DOMAIN us THEN [users |-> us, new_badges |-> <<>>]
  ELSE [users |-> [us EXCEPT ![u].badges = NewBadges(us[u])],
        new_badges |-> NewBadges(us[u])]

\* check_and_award_badges: the profiles afterwards and the list returned
CheckAndAwardBadges(us, u) ==
  IF u \notin DOMAIN us THEN [users |-> us, new_badges |-> <<>>]
  ELSE [users |-> [us EXCEPT ![u].badges = AddToSet(@, NewBadges(us[u]))],
        new_badges |-> NewBadges(us[u])]

\* faulty variant: delete_many on the user_id of the entry instead of delete_one on log_id
DeleteManyOfUser(logs, id) ==
  {l \in logs : \A m \in logs : m.log_id = id => l.user_id # m.user_id}

\* food_logs.delete_one({log_id}): removes one matching document
DeleteOne(logs, id) ==
  IF \E l \in logs : l.log_id = id
    THEN logs \ {CHOOSE l \in logs : l.log_id = id}
    ELSE logs

\* food_logs.find({user_id}): the entries get_food_logs lists for a user
ListLogs(logs, u) == {l \in logs : l.user_id = u}

DeletedCount(logs, id) == Cardinality(logs) - Cardinality(DeleteOne(logs, id))

\* HTTP responses; a raised HTTPException is an Exception like any other
Ok(detail) == [raised |-> FALSE, status |-> 200, detail |-> detail]
Raise(status, detail) == [raised |-> TRUE, status |-> status, detail |-> detail]

\* try: ... except Exception as e: raise HTTPException(500, msg)
ExceptException(r, msg) ==
  IF r.raised THEN [raised |-> TRUE, status |-> 500, detail |-> msg] ELSE r

Response(op, u, id, r, badges) ==
  [op |-> op, user_id |-> u, log_id |-> id, status |-> r.status,
   detail |-> r.detail, new_badges |-> badges]

NoPre == [streak |-> 0, total |-> 0, today |-> FALSE, yesterday |-> FALSE]

PreOf(us, logs, u, d) ==
  IF u \in DOMAIN us
    THEN [streak |-> us[u].streak_count, total |-> us[u].total_foods_logged,
          today |-> HasLogOn(logs, u, d), yesterday |-> HasLogOn(logs, u, d - 1)]
    ELSE [NoPre EXCEPT !.today = HasLogOn(logs, u, d),
                       !.yesterday = HasLogOn(logs, u, d - 1)]

\* history bookkeeping of the badges a call returned as newly earned
Emit(em, u, new) ==
  IF u \in DOMAIN em
    THEN [em EXCEPT ![u] = [b \in BadgeIds |->
            IF b \in Range(new) THEN Min(@[b] + 1, 2) ELSE @[b]]]
    ELSE em

\* locals of a log_food call: its form data and food_log, the user document
\* update_user_streak read (its streak_count), yesterday_logs, new_badges and
\* the status of the response once it is sent
NoLoc == [user_id |-> DefaultUser, log_id |-> NoId, streak_read |-> 0,
          yesterday_logs |-> FALSE, new_badges |-> <<>>, status |-> 0]

NoSnap == [started |-> FALSE, overlap |-> FALSE, users |-> <<>>, yesterday |-> {}]

\* ------------------------------------------------------------------ Init
Init ==
  /\ users = <<>>
  /\ food_logs = {}
  /\ now = 0
  /\ lastOp = Response("start", DefaultUser, NoId, Ok(""), <<>>)
  /\ pre = NoPre
  /\ firstDay = <<>>
  /\ emitted = <<>>
  /\ pc = [p \in Procs |-> "idle"]
  /\ loc = [p \in Procs |-> NoLoc]
  /\ snap = NoSnap
  /\ nutrition_display = {}
  /\ clock = 0
  /\ stored = {}

\* --------------------------------------------------------------- actions
\* POST /api/register with an email that is not registered yet
Register(u, data) ==
  /\ UNCHANGED displayVars
  /\ u \notin DOMAIN users
  /\ ~EmailRegistered(users, data.email)
  /\ users' = (u :> NewUser(data, now)) @@ users
  /\ emitted' = (u :> [b \in BadgeIds |-> 0]) @@ emitted
  /\ lastOp' = Response("register", u, NoId, Ok("bearer"), <<>>)
  /\ pre' = NoPre
  /\ UNCHANGED <<food_logs, now, firstDay, pc, loc, snap>>

\* the clock passes midnight UTC
Tick ==
  /\ UNCHANGED displayVars
  /\ \A p \in Procs : pc[p] = "idle"
  /\ now' = now + 1
  /\ lastOp' = Response("tick", DefaultUser, NoId, Ok(""), <<>>)
  /\ pre' = NoPre
  /\ UNCHANGED <<users, food_logs, firstDay, emitted, pc, loc, snap>>

\* POST /api/log-food, run to completion; utcnow() at line 556 reads time
\* t of day now
LogFoodAt(u, w, id, t) ==
  /\ UNCHANGED displayVars
  /\ u \in DOMAIN users \cup {DefaultUser}
  /\ \A l \in food_logs : l.log_id # id
  /\ \E portion \in Portions :
     IF w = 0
       THEN \* (total_calories / weight_grams) raises ZeroDivisionError
            /\ pre' = NoPre
            /\ lastOp' = Response("log_food", u, NoId,
                            ExceptException(Raise(500, "ZeroDivisionError"),
                                            "Failed to log food"), <<>>)
            /\ UNCHANGED <<users, food_logs, firstDay, emitted>>
       ELSE LET logs1 == food_logs \cup {FoodLog(id, u, w, portion, now, t)}
                us1 == IncTotalFoods(users, u)
                us2 == UpdateUserStreak(us1, logs1, u, now)
                res == CheckAndAwardBadges(us2, u)
            IN /\ pre' = PreOf(users, food_logs, u, now)
               /\ food_logs' = logs1
               /\ users' = res.users
               /\ lastOp' = Response("log_food", u, id,
                              ExceptException(Ok("Food logged successfully"),
                                              "Failed to log food"),
                              res.new_badges)
               /\ firstDay' = IF u \in DOMAIN users /\ u \notin DOMAIN firstDay
                                THEN (u :> now) @@ firstDay ELSE firstDay
               /\ emitted' = Emit(emitted, u, res.new_badges)
  /\ UNCHANGED <<now, pc, loc, snap>>

\* POST /api/log-food at 00:00:00 of day now
LogFood(u, w, id) == LogFoodAt(u, w, id, Midnight)

\* DELETE /api/food-logs/{log_id}
DeleteFoodLog(id) ==
  /\ UNCHANGED displayVars
  /\ food_logs' = DeleteOne(food_logs, id)
  /\ lastOp' = Response("delete_food_log", DefaultUser, NoId,
                 ExceptException(
                   IF DeletedCount(food_logs, id) = 0
                     THEN Raise(404, "Food log not found")
                     ELSE Ok("Food log deleted successfully"),
                   "Failed to delete food log"),
                 <<>>)
  /\ pre' = NoPre
  /\ UNCHANGED <<users, now, firstDay, emitted, pc, loc, snap>>

\* ------------------------------------------------ GET /api/food-logs
\* the date_filter query parameter: none, a day "%Y-%m-%d", or a string
\* strptime rejects
NoFilter == [given |-> FALSE, valid |-> TRUE, day |-> 0]
OnDay(d) == [given |-> TRUE, valid |-> TRUE, day |-> d]
Malformed == [given |-> TRUE, valid |-> FALSE, day |-> 0]

\* lines 587-597: find({user_id, logged_at: {$gte: d 00:00:00, $lte: d 23:59:59}})
Matching(logs, u, f) ==
  {l \in ListLogs(logs, u) :
     f.given => /\ LoggedInstant(l) >= Instant(f.day, Midnight)
                /\ LoggedInstant(l) <= Instant(f.day, EndOfDay)}

\* the subsets of S that have k elements
RECURSIVE KSubsets(_, _)
KSubsets(S, k) ==
  IF k = 0 THEN {{}}
  ELSE UNION {{T \cup {x} : T \in KSubsets(S \ {x}, k - 1)} : x \in S}

\* lines 597-598: .sort("logged_at", -1) and to_list(length=100) keep the
\* ListLimit most recent entries of M. The results it can give: the order
\* of entries with one logged_at is not fixed by the sort, so any of the
\* entries of the oldest listed instant may be the ones that are cut off.
Cursors(M) ==
  LET k == Cardinality(M) - ListLimit
      upto(d) == {l \in M : LoggedInstant(l) <= d}
      older(d) == {l \in M : LoggedInstant(l) < d}
  IN IF k <= 0 THEN {M}
     ELSE LET cut == CHOOSE d \in {LoggedInstant(l) : l \in M} :
                       Cardinality(upto(d)) >= k /\ Cardinality(older(d)) < k
          IN {M \ (older(cut) \cup S) :
                S \in KSubsets(upto(cut) \ older(cut), k - Cardinality(older(cut)))}

\* lines 606-611: the sum of one field over the listed entries
RECURSIVE SumValues(_, _, _)
SumValues(V, L, field) ==
  IF V = {} THEN 0
  ELSE LET v == CHOOSE x \in V : TRUE
       IN v * Cardinality({l \in L : l[field] = v}) + SumValues(V \ {v}, L, field)

Total(L, field) == SumValues({l[field] : l \in L}, L, field)

\* lines 615-620
DailyTotals(L) ==
  [calories |-> Round1(Total(L, "total_calories"), 1),
   protein |-> Round1(Total(L, "protein"), 1),
   carbs |-> Round1(Total(L, "carbs"), 1),
   fat |-> Round1(Total(L, "fat"), 1)]

GetFoodLogs(u, f) ==
  /\ UNCHANGED displayVars
  /\ IF f.valid
       THEN \E L \in Cursors(Matching(food_logs, u, f)) :
              lastOp' = Response("get_food_logs", u, NoId,
                          ExceptException(Ok(""), "Failed to get food logs"), <<>>)
                        @@ [date_filter |-> f, daily_totals |-> DailyTotals(L)]
       ELSE lastOp' = Response("get_food_logs", u, NoId,
                        ExceptException(Raise(500, "ValueError"),
                                        "Failed to get food logs"), <<>>)
                      @@ [date_filter |-> f]
  /\ pre' = NoPre
  /\ UNCHANGED <<users, food_logs, now, firstDay, emitted, pc, loc, snap>>

\* ------------------------------------------------ GET /api/user-stats
GetUserStats(u) ==
  /\ UNCHANGED displayVars
  /\ lastOp' = Response("get_user_stats", u, NoId,
                 ExceptException(Ok(""), "Failed to get user stats"), <<>>)
               @@ [total_foods_logged |-> Cardinality(ListLogs(food_logs, u)),
                   streak_count |-> IF u \in DOMAIN users
                                      THEN users[u].streak_count ELSE 0,
                   badges |-> IF u \in DOMAIN users THEN users[u].badges ELSE <<>>,
                   daily_calorie_goal |-> IF u \in DOMAIN users
                                            THEN users[u].daily_calorie_goal ELSE 2000]
  /\ pre' = NoPre
  /\ UNCHANGED <<users, food_logs, now, firstDay, emitted, pc, loc, snap>>

\* ----------------------------------------------- POST /api/analyze-food
\* what the two calls to the recognition provider come to
ProviderFailures == {"unreachable", "http_error", "unparseable", "no_image_id"}

\* the nutritionalInfo payload of a successful answer, per 100 g; a key
\* the payload lacks reads as the default of its .get(): 0, or no name
Nutrition(names, calories, protein, carbs, fat) ==
  [foodName |-> names, calories |-> calories, protein |-> protein,
   carbs |-> carbs, fat |-> fat]

Failed(kind) == [kind |-> kind, nutrition |-> Nutrition(<<>>, 0, 0, 0, 0)]
Answered(nutrition) == [kind |-> "ok", nutrition |-> nutrition]

\* analyze_food_with_logmeal: None on every exception and on a missing imageId
AnalyzeFoodWithLogmeal(provider) ==
  IF provider.kind = "ok"
    THEN [found |-> TRUE, nutrition |-> provider.nutrition]
    ELSE [found |-> FALSE, nutrition |-> provider.nutrition]

\* line 407: request.weight_grams or 100
WeightGramsOr100(weight_grams) ==
  IF ~weight_grams.given \/ weight_grams.value = 0 THEN 100 ELSE weight_grams.value

\* lines 409-420: scaled_nutrition
ScaledNutrition(nutrition, weight_grams) ==
  [food_name |-> IF nutrition.foodName # <<>> THEN Head(nutrition.foodName)
                 ELSE "Unknown Food",
   weight_grams |-> weight_grams,
   calories_per_100g |-> nutrition.calories,
   total_calories |-> Round1(nutrition.calories * weight_grams, 100),
   protein |-> Round1(nutrition.protein * weight_grams, 100),
   carbs |-> Round1(nutrition.carbs * weight_grams, 100),
   fat |-> Round1(nutrition.fat * weight_grams, 100)]

\* lines 426-428: except Exception as e: raise HTTPException(500,
\* f"Analysis failed: {str(e)}"), where str(e) shows status and detail of e
AnalysisFailed(r) ==
  [raised |-> TRUE, status |-> 500, detail |-> <<"Analysis failed", r.status, r.detail>>]

\* the handler: its outcome and, when it returns, the body
AnalyzeFoodResult(req) ==
  IF ~req.image_ok
    THEN [outcome |-> AnalysisFailed(Raise(400, "Invalid base64 image data"))]
  ELSE IF ~AnalyzeFoodWithLogmeal(req.provider).found
    THEN [outcome |-> AnalysisFailed(Raise(400, "Failed to analyze food image"))]
  ELSE [outcome |-> Ok(""),
        body |-> ScaledNutrition(AnalyzeFoodWithLogmeal(req.provider).nutrition,
                                 WeightGramsOr100(req.weight_grams))]

AnalyzeFood(req) ==
  /\ UNCHANGED displayVars
  /\ lastOp' = Response("analyze_food", DefaultUser, NoId,
                         AnalyzeFoodResult(req).outcome, <<>>)
               @@ [request |-> req]
               @@ (IF AnalyzeFoodResult(req).outcome.raised THEN <<>>
                   ELSE [body |-> AnalyzeFoodResult(req).body])
  /\ pre' = NoPre
  /\ UNCHANGED <<users, food_logs, now, firstDay, emitted, pc, loc, snap>>

\* a request with a readable image of a recognised food
ExampleRequest ==
  [image_ok |-> TRUE, weight_grams |-> Given(150),
   provider |-> Answered(Nutrition(<<"apple">>, 5200, 28, 1384, 20))]

\* the registrations of SpecGoal
UserDatas ==
  [email : {"a@example.com"}, weight : {60, 75, 90}, height : {160, 180}, age : {30, 31},
   gender : {"male", "Male", "female"},
   activity_level : {"sedentary", "lightly_active", "moderately_active",
                     "MODERATELY_ACTIVE", "very_active", "extra_active", "couch"},
   goal_weight : {Absent, Given(0), Given(70), Given(80)}]

\* the requests of SpecAnalyze. No product of a per-100 g value and a weight
\* is a tie of round(., 1): Python settles a tie by the binary
\* representation of the product, which the model does not have.
PerHundredCalories == {0, 12, 92, 5200, 5260, 8932, 16520}

AnalysisWeights == {Absent} \cup {Given(g) : g \in {-50, 0, 1, 10, 49, 50, 100, 250}}

Payloads ==
  {Nutrition(<<"apple">>, c, 28, 1384, 20) : c \in PerHundredCalories}
    \cup {Nutrition(<<>>, 0, 0, 0, 0)}

Providers == {Failed(k) : k \in ProviderFailures} \cup {Answered(n) : n \in Payloads}

AnalysisRequests ==
  [image_ok : BOOLEAN, weight_grams : AnalysisWeights, provider : Providers]

\* the profile of u, if any, has logged fewer than cap foods
Below(u, cap) == u \in DOMAIN users => users[u].total_foods_logged < cap

Next ==
  \/ \E u \in RegIds : Register(u, ExampleUser)
  \/ now < MaxDay /\ Tick
  \/ \E u \in RegIds \cup {DefaultUser}, w \in Weights, id \in LogIds :
       Below(u, MaxTotal) /\ LogFood(u, w, id)
  \/ \E id \in LogIds : DeleteFoodLog(id)

Spec == Init /\ [][Next]_vars

NextLong ==
  \/ \E u \in RegIds : Register(u, ExampleUser)
  \/ now < MaxLongDay /\ Tick
  \/ \E u \in RegIds, id \in LogIds : Below(u, MaxLongTotal) /\ LogFood(u, 100, id)
  \/ \E id \in LogIds : DeleteFoodLog(id)

SpecLong == Init /\ [][NextLong]_vars

\* the requests that write together with the requests that only read
NextFrame ==
  \/ \E u \in RegIds : Register(u, ExampleUser)
  \/ now < MaxFrameDay /\ Tick
  \/ \E u \in RegIds \cup {DefaultUser}, w \in Weights, id \in FrameLogIds :
       Below(u, MaxFrameTotal) /\ LogFood(u, w, id)
  \/ \E id \in FrameLogIds : DeleteFoodLog(id)
  \/ \E u \in RegIds \cup {DefaultUser}, f \in {NoFilter, OnDay(now)} : GetFoodLogs(u, f)
  \/ \E u \in RegIds \cup {DefaultUser} : GetUserStats(u)
  \/ AnalyzeFood(ExampleRequest)

SpecFrame == Init /\ [][NextFrame]_vars

\* log ids are handed out in sequence, so that long histories are reached
NextMilestone ==
  \/ \E u \in RegIds : Register(u, ExampleUser)
  \/ now < MaxMilestoneDay /\ Tick
  \/ \E u \in RegIds :
       Below(u, MaxMilestoneTotal) /\ LogFood(u, 100, Cardinality(food_logs) + 1)

SpecMilestone == Init /\ [][NextMilestone]_vars

NextList ==
  \/ \E u \in RegIds : Register(u, ExampleUser)
  \/ now < MaxListDay /\ Tick
  \/ \E u \in RegIds :
       Cardinality(food_logs) < MaxListLogs /\ LogFood(u, 100, Cardinality(food_logs) + 1)
  \/ \E u \in RegIds \cup {DefaultUser},
        f \in {NoFilter, Malformed} \cup {OnDay(d) : d \in 0..MaxListDay} :
       GetFoodLogs(u, f)

SpecList == Init /\ [][NextList]_vars

\* the times of day utcnow() reads in SpecClock: 00:00:00.000,
\* 23:59:59.000 and 23:59:59.500
DayTimes == {Midnight, EndOfDay, EndOfDay + 500}

NextClock ==
  \/ \E u \in RegIds : Register(u, ExampleUser)
  \/ now < MaxClockDay /\ Tick
  \/ \E u \in RegIds, id \in 1..MaxClockLogs, t \in DayTimes :
       LogFoodAt(u, 100, id, t)
  \/ \E u \in RegIds, d \in 0..MaxClockDay : GetFoodLogs(u, OnDay(d))

SpecClock == Init /\ [][NextClock]_vars

NextGoal == \E u \in RegIds, data \in UserDatas : Register(u, data)

SpecGoal == Init /\ [][NextGoal]_vars

NextAnalyze == \E req \in AnalysisRequests : AnalyzeFood(req)

SpecAnalyze == Init /\ [][NextAnalyze]_vars

\* ---------------------------------------- log_food, one await at a time
InFlight(p) == pc[p] \notin {"idle", "done"}

Goto(p, label) == pc' = [pc EXCEPT ![p] = label]

\* faulty variant: total_foods_logged is incremented first, before food_log is built
StartCountsFirst(p, u, w, id) ==
  /\ UNCHANGED displayVars
  /\ pc[p] = "idle"
  /\ u \in DOMAIN users \cup {DefaultUser}
  /\ \A l \in food_logs : l.log_id # id
  /\ snap' = IF \A q \in Procs : pc[q] = "idle"
               THEN [started |-> TRUE, overlap |-> FALSE, users |-> users,
                     yesterday |-> {v \in DOMAIN users : HasLogOn(food_logs, v, now - 1)}]
               ELSE [snap EXCEPT !.overlap =
                       @ \/ \E q \in Procs : InFlight(q) /\ loc[q].user_id = u]
  /\ \E portion \in Portions :
     IF w = 0
       THEN \* ZeroDivisionError at line 549, answered at line 580
            /\ loc' = [loc EXCEPT ![p] =
                 [NoLoc EXCEPT !.user_id = u,
                               !.status = ExceptException(Raise(500, "ZeroDivisionError"),
                                                          "Failed to log food").status]]
            /\ Goto(p, "done")
            /\ UNCHANGED food_logs
       ELSE /\ food_logs' = food_logs \cup {FoodLog(id, u, w, portion, now, Midnight)}
            /\ loc' = [loc EXCEPT ![p] = [NoLoc EXCEPT !.user_id = u, !.log_id = id]]
            /\ Goto(p, "streak_user")
  /\ users' = IncTotalFoods(users, u)
  /\ UNCHANGED <<now, lastOp, pre, firstDay, emitted>>

\* lines 545-559: build food_log and await food_logs.insert_one
Start(p, u, w, id) ==
  /\ UNCHANGED displayVars
  /\ pc[p] = "idle"
  /\ u \in DOMAIN users \cup {DefaultUser}
  /\ \A l \in food_logs : l.log_id # id
  /\ snap' = IF \A q \in Procs : pc[q] = "idle"
               THEN [started |-> TRUE, overlap |-> FALSE, users |-> users,
                     yesterday |-> {v \in DOMAIN users : HasLogOn(food_logs, v, now - 1)}]
               ELSE [snap EXCEPT !.overlap =
                       @ \/ \E q \in Procs : InFlight(q) /\ loc[q].user_id = u]
  /\ \E portion \in Portions :
     IF w = 0
       THEN \* ZeroDivisionError at line 549, answered at line 580
            /\ loc' = [loc EXCEPT ![p] =
                 [NoLoc EXCEPT !.user_id = u,
                               !.status = ExceptException(Raise(500, "ZeroDivisionError"),
                                                          "Failed to log food").status]]
            /\ Goto(p, "done")
            /\ UNCHANGED food_logs
       ELSE /\ food_logs' = food_logs \cup {FoodLog(id, u, w, portion, now, Midnight)}
            /\ loc' = [loc EXCEPT ![p] = [NoLoc EXCEPT !.user_id = u, !.log_id = id]]
            /\ Goto(p, "inc_total")
  /\ UNCHANGED <<users, now, lastOp, pre, firstDay, emitted>>

\* lines 562-565: await users.update_one($inc total_foods_logged)
IncTotal(p) ==
  /\ UNCHANGED displayVars
  /\ pc[p] = "inc_total"
  /\ users' = IncTotalFoods(users, loc[p].user_id)
  /\ Goto(p, "streak_user")
  /\ UNCHANGED <<food_logs, now, lastOp, pre, firstDay, emitted, loc, snap>>

\* lines 208-210: user = await users.find_one; return when there is none
StreakFindUser(p) ==
  /\ UNCHANGED displayVars
  /\ pc[p] = "streak_user"
  /\ IF loc[p].user_id \in DOMAIN users
       THEN /\ loc' = [loc EXCEPT ![p].streak_read = users[loc[p].user_id].streak_count]
            /\ Goto(p, "streak_today")
       ELSE /\ Goto(p, "badge_user")
            /\ UNCHANGED loc
  /\ UNCHANGED <<users, food_logs, now, lastOp, pre, firstDay, emitted, snap>>

\* lines 212-225: today_logs = await food_logs.find_one; return when none
StreakFindToday(p) ==
  /\ UNCHANGED displayVars
  /\ pc[p] = "streak_today"
  /\ Goto(p, IF HasLogOn(food_logs, loc[p].user_id, now)
               THEN "streak_yesterday" ELSE "badge_user")
  /\ UNCHANGED <<users, food_logs, now, lastOp, pre, firstDay, emitted, loc, snap>>

\* lines 228-234: yesterday_logs = await food_logs.find_one
StreakFindYesterday(p) ==
  /\ UNCHANGED displayVars
  /\ pc[p] = "streak_yesterday"
  /\ loc' = [loc EXCEPT ![p].yesterday_logs = HasLogOn(food_logs, loc[p].user_id, now - 1)]
  /\ Goto(p, "streak_write")
  /\ UNCHANGED <<users, food_logs, now, lastOp, pre, firstDay, emitted, snap>>

\* faulty variant: the new streak is computed from the user document read at line 208
StreakWriteStale(p) ==
  /\ UNCHANGED displayVars
  /\ pc[p] = "streak_write"
  /\ users' = [users EXCEPT ![loc[p].user_id].streak_count =
                 StreakValue(loc[p].streak_read, TRUE, loc[p].yesterday_logs)]
  /\ Goto(p, "badge_user")
  /\ UNCHANGED <<food_logs, now, lastOp, pre, firstDay, emitted, loc, snap>>

\* lines 236-247: await users.update_one, $inc streak_count by 1 or $set it to 1
StreakWrite(p) ==
  /\ UNCHANGED displayVars
  /\ pc[p] = "streak_write"
  /\ users' = [users EXCEPT ![loc[p].user_id].streak_count =
                 StreakValue(@, TRUE, loc[p].yesterday_logs)]
  /\ Goto(p, "badge_user")
  /\ UNCHANGED <<food_logs, now, lastOp, pre, firstDay, emitted, loc, snap>>

\* lines 251-272: user = await users.find_one; build new_badges from it
BadgeFindUser(p) ==
  /\ UNCHANGED displayVars
  /\ pc[p] = "badge_user"
  /\ IF loc[p].user_id \in DOMAIN users
       THEN /\ loc' = [loc EXCEPT ![p].new_badges = NewBadges(users[loc[p].user_id])]
            /\ Goto(p, IF NewBadges(users[loc[p].user_id]) # <<>>
                         THEN "badge_write" ELSE "respond")
       ELSE /\ Goto(p, "respond")
            /\ UNCHANGED loc
  /\ UNCHANGED <<users, food_logs, now, lastOp, pre, firstDay, emitted, snap>>

\* lines 274-279: await users.update_one($addToSet badges)
BadgeWrite(p) ==
  /\ UNCHANGED displayVars
  /\ pc[p] = "badge_write"
  /\ users' = [users EXCEPT ![loc[p].user_id].badges = AddToSet(@, loc[p].new_badges)]
  /\ Goto(p, "respond")
  /\ UNCHANGED <<food_logs, now, lastOp, pre, firstDay, emitted, loc, snap>>

\* lines 573-577: the response, with new_badges when there are any
Respond(p) ==
  /\ UNCHANGED displayVars
  /\ pc[p] = "respond"
  /\ loc' = [loc EXCEPT ![p].status =
               ExceptException(Ok("Food logged successfully"), "Failed to log food").status]
  /\ emitted' = Emit(emitted, loc[p].user_id, loc[p].new_badges)
  /\ Goto(p, "done")
  /\ UNCHANGED <<users, food_logs, now, lastOp, pre, firstDay, snap>>

\* ------------------------------------- register_user, one await at a time
\* the emails and the uuid4 user ids of SpecRegister
RegisterEmails == {"a@example.com", "b@example.com"}
RegisterDatas == {[ExampleUser EXCEPT !.email = e] : e \in RegisterEmails}
RegisterUserIds == {"u1", "u2", "u3"}

\* lines 293-296: existing_user = await users.find_one({email}); when there
\* is one, HTTPException(400), which line 341 answers as HTTP 500
RegisterFind(p, data) ==
  /\ UNCHANGED displayVars
  /\ pc[p] = "idle"
  /\ IF EmailRegistered(users, data.email)
       THEN /\ loc' = [loc EXCEPT ![p] =
                 [NoLoc EXCEPT !.status =
                    ExceptException(Raise(400, "Email already registered"),
                                    "Registration failed").status]
                 @@ [data |-> data]]
            /\ Goto(p, "done")
       ELSE /\ loc' = [loc EXCEPT ![p] = NoLoc @@ [data |-> data]]
            /\ Goto(p, "register_insert")
  /\ UNCHANGED <<users, food_logs, now, lastOp, pre, firstDay, emitted, snap>>

\* lines 298-338: build the document with a new uuid4, await
\* users.insert_one, answer with the token
RegisterInsert(p, u) ==
  /\ UNCHANGED displayVars
  /\ pc[p] = "register_insert"
  /\ u \notin DOMAIN users
  /\ users' = (u :> NewUser(loc[p].data, now)) @@ users
  /\ emitted' = (u :> [b \in BadgeIds |-> 0]) @@ emitted
  /\ loc' = [loc EXCEPT ![p].user_id = u, ![p].status = Ok("bearer").status]
  /\ Goto(p, "done")
  /\ UNCHANGED <<food_logs, now, lastOp, pre, firstDay, snap>>

\* ------------------------ store_nutrition_display, one await at a time
\* the NutritionDisplay body of request number n
ExampleDisplay(n) ==
  [food_name |-> "apple", weight_grams |-> 100, total_calories |-> 5200,
   protein |-> 28, carbs |-> 1384, fat |-> 20, analyzed_at |-> n,
   confidence |-> 80]

\* the document inserted at line 439, with the ObjectId the driver makes
\* for it when insert_one is called
DisplayRecord(id, nutrition, t) == [id |-> id, stored_at |-> t] @@ nutrition

\* the requests made so far
DisplayRequests ==
  Cardinality(stored) + Cardinality({p \in Procs : pc[p] = "display_insert"})

\* what utcnow() can read at line 436: the clock has moved on since the
\* last reading, except that a call may read the millisecond that one
\* other call, still waiting for its insert, has just read
Readings(p) ==
  IF /\ \E q \in Procs \ {p} : pc[q] = "display_insert" /\ loc[q].stored_at = clock
     /\ \A r \in stored : r.stored_at # clock
    THEN {clock, clock + 1}
    ELSE {clock + 1}

\* the results find().sort("stored_at", direction).skip(DisplayLimit) can
\* give on collection C: the records after the first DisplayLimit ones;
\* the order of records with one stored_at is not fixed by the sort.
\* direction is 1 (ascending) or -1 (descending)
Skipped(C, direction) ==
  LET k == Cardinality(C) - DisplayLimit
      behind(r) == {x \in C : direction * r.stored_at < direction * x.stored_at}
      level(r) == {x \in C : x.stored_at = r.stored_at}
  IN IF k <= 0 THEN {{}}
     ELSE LET cut == CHOOSE r \in C :
                       /\ Cardinality(behind(r)) < k
                       /\ Cardinality(behind(r) \cup level(r)) >= k
          IN {behind(cut) \cup S :
                S \in KSubsets(level(cut), k - Cardinality(behind(cut)))}

\* faulty variant: the sort is ascending, the newest records are the old ones
OldRecordsAscending(C) ==
  Skipped(C, 1)

\* line 442-443: find().sort("stored_at", -1).skip(10)
OldRecords(C) ==
  Skipped(C, -1)

\* lines 435-436: the body is validated, stored_at = utcnow()
DisplayStart(p, t) ==
  /\ pc[p] = "idle"
  /\ clock' = t
  /\ loc' = [loc EXCEPT ![p] =
         NoLoc @@ [id |-> DisplayRequests + 1,
                   nutrition |-> ExampleDisplay(DisplayRequests + 1),
                   stored_at |-> t, old_ids |-> {}]]
  /\ Goto(p, "display_insert")
  /\ UNCHANGED <<users, food_logs, now, lastOp, pre, firstDay, emitted, snap,
                 nutrition_display, stored>>

\* line 439: await nutrition_display.insert_one(nutrition_data)
DisplayInsert(p) ==
  /\ pc[p] = "display_insert"
  /\ LET r == DisplayRecord(loc[p].id, loc[p].nutrition, loc[p].stored_at)
     IN /\ nutrition_display' = nutrition_display \cup {r}
        /\ stored' = stored \cup {r}
  /\ Goto(p, "display_find")
  /\ UNCHANGED <<users, food_logs, now, lastOp, pre, firstDay, emitted, loc, snap,
                 clock>>

\* lines 442-446: old_records = await cursor.to_list(length=None); without
\* old records the call answers at once
DisplayFind(p) ==
  /\ pc[p] = "display_find"
  /\ \E old \in OldRecords(nutrition_display) :
       /\ loc' = [loc EXCEPT ![p].old_ids = {r.id : r \in old},
                             ![p].status = IF old = {} THEN Ok("success").status ELSE @]
       /\ Goto(p, IF old = {} THEN "done" ELSE "display_delete")
  /\ UNCHANGED <<users, food_logs, now, lastOp, pre, firstDay, emitted, snap,
                 nutrition_display, clock, stored>>

\* line 447: await nutrition_display.delete_many({_id: {$in: old_ids}}),
\* then the answer of line 449
DisplayDelete(p) ==
  /\ pc[p] = "display_delete"
  /\ nutrition_display' = {r \in nutrition_display : r.id \notin loc[p].old_ids}
  /\ loc' = [loc EXCEPT ![p].status = Ok("success").status]
  /\ Goto(p, "done")
  /\ UNCHANGED <<users, food_logs, now, lastOp, pre, firstDay, emitted, snap,
                 clock, stored>>

\* GET /api/lcd-display: find_one({}, sort=[("stored_at", -1)]) gives one of
\* the records with the greatest stored_at, or None
GetNutritionForLcd ==
  /\ IF nutrition_display = {}
       THEN lastOp' = Response("lcd_display", DefaultUser, NoId,
                        ExceptException(Ok("No nutrition data available"),
                                        "Failed to get LCD display data"), <<>>)
                      @@ [display_status |-> "no_data"]
       ELSE \E latest_analysis \in nutrition_display :
              /\ \A r \in nutrition_display : r.stored_at <= latest_analysis.stored_at
              /\ lastOp' = Response("lcd_display", DefaultUser, NoId,
                             ExceptException(Ok("Latest nutrition data retrieved"),
                                             "Failed to get LCD display data"), <<>>)
                           @@ [display_status |-> "success",
                               nutrition |-> ExampleDisplay(latest_analysis.analyzed_at)]
  /\ pre' = NoPre
  /\ UNCHANGED <<users, food_logs, now, firstDay, emitted, pc, loc, snap,
                 nutrition_display, clock, stored>>

\* the clients have read their responses: the round of calls is over
Collect ==
  /\ UNCHANGED displayVars
  /\ \A p \in Procs : ~InFlight(p)
  /\ \E p \in Procs : pc[p] = "done"
  /\ pc' = [p \in Procs |-> "idle"]
  /\ loc' = [p \in Procs |-> NoLoc]
  /\ snap' = NoSnap
  /\ UNCHANGED <<users, food_logs, now, lastOp, pre, firstDay, emitted>>

NextConc ==
  \/ \E u \in RegIds : Register(u, ExampleUser)
  \/ now < MaxConcDay /\ Tick
  \/ \E p \in Procs, u \in RegIds \cup {DefaultUser}, w \in Weights, id \in ConcLogIds :
       Start(p, u, w, id)
  \/ \E p \in Procs : IncTotal(p)
  \/ \E p \in Procs : StreakFindUser(p)
  \/ \E p \in Procs : StreakFindToday(p)
  \/ \E p \in Procs : StreakFindYesterday(p)
  \/ \E p \in Procs : StreakWrite(p)
  \/ \E p \in Procs : BadgeFindUser(p)
  \/ \E p \in Procs : BadgeWrite(p)
  \/ \E p \in Procs : Respond(p)
  \/ Collect

SpecConc == Init /\ [][NextConc]_vars

NextDisplay ==
  \/ \E p \in Procs : \E t \in Readings(p) :
       DisplayRequests < MaxStored /\ DisplayStart(p, t)
  \/ \E p \in Procs : DisplayInsert(p)
  \/ \E p \in Procs : DisplayFind(p)
  \/ \E p \in Procs : DisplayDelete(p)
  \/ Collect
  \/ GetNutritionForLcd

SpecDisplay == Init /\ [][NextDisplay]_vars

NextRegister ==
  \/ \E p \in Procs, data \in RegisterDatas : RegisterFind(p, data)
  \/ \E p \in Procs, u \in RegisterUserIds : RegisterInsert(p, u)
  \/ Collect

SpecRegister == Init /\ [][NextRegister]_vars

\* --------------------------------------- properties under Spec, SpecLong
\* the last request was a successful log_food call of the registered user u
LoggedOk(u) ==
  /\ lastOp.op = "log_food"
  /\ lastOp.status = 200
  /\ lastOp.user_id = u
  /\ u \in DOMAIN users

DaysWithLog(u) == {l.logged_at : l \in ListLogs(food_logs, u)}

LastDayWithLog(u) == CHOOSE d \in DaysWithLog(u) : \A e \in DaysWithLog(u) : e <= d

\* number of consecutive days with an entry of u, ending on the most
\* recent day that has one
ConsecutiveDays(u) ==
  Cardinality({d \in 0..LastDayWithLog(u) :
                 \A e \in d..LastDayWithLog(u) : e \in DaysWithLog(u)})

\* C1: a successful log-food call of a registered user who already has an
\* entry logged earlier the same day leaves streak_count unchanged.
C1_SameDayNoChange ==
  \A u \in DOMAIN users :
    (LoggedOk(u) /\ pre.today) => users[u].streak_count = pre.streak

\* C2: streak_count is >= 0 and, when the user has a stored entry, equals the
\* number of consecutive civil days with an entry ending on the most recent
\* day that has one.
C2_StreakIsConsecutiveDays ==
  \A u \in DOMAIN users :
    /\ users[u].streak_count >= 0
    /\ ListLogs(food_logs, u) # {} => users[u].streak_count = ConsecutiveDays(u)

\* C3: with an entry logged yesterday, the log-food calls of today raise
\* streak_count by exactly 1 in total: the first call of the day adds 1 and
\* every later call of the day adds nothing.
C3_OneIncrementPerDay ==
  \A u \in DOMAIN users :
    (LoggedOk(u) /\ pre.yesterday) =>
      users[u].streak_count = pre.streak + (IF pre.today THEN 0 ELSE 1)

C6_BadgeOnce ==
  \A u \in DOMAIN users :
    /\ \A b \in BadgeIds : emitted[u][b] <= 1
    /\ Cardinality(Range(users[u].badges)) = Len(users[u].badges)

\* C6 witness: the streak reaches 7 again when week_warrior is already stored
C6_Witness ==
  \E u \in DOMAIN users :
    /\ LoggedOk(u)
    /\ pre.streak < WeekWarriorStreak
    /\ users[u].streak_count >= WeekWarriorStreak
    /\ "week_warrior" \in Range(users[u].badges)
    /\ "week_warrior" \notin Range(lastOp.new_badges)

\* C9: deleting a log_id that is not in the store answers 404 "Food log not
\* found" and leaves every stored entry and every profile unchanged.
C9_DeleteUnknownIs404 ==
  [][\A id \in LogIds :
       (DeleteFoodLog(id) /\ \A l \in food_logs : l.log_id # id) =>
         /\ lastOp'.status = 404
         /\ lastOp'.detail = "Food log not found"
         /\ food_logs' = food_logs
         /\ users' = users]_vars

\* C10: deleting a log_id that is in the store removes exactly the entry with
\* that log_id: no listing of any user contains it afterwards and every
\* other stored entry is still present, unchanged.
C10_DeleteExactlyOne ==
  [][\A id \in LogIds :
       (DeleteFoodLog(id) /\ \E l \in food_logs : l.log_id = id) =>
         /\ \A u \in RegIds \cup {DefaultUser} :
              \A l \in ListLogs(food_logs', u) : l.log_id # id
         /\ \A l \in food_logs : l.log_id # id => l \in food_logs'
         /\ food_logs' \subseteq food_logs]_vars

\* C10 witness: an entry was deleted and another one is still stored
C10_Witness ==
  /\ lastOp.op = "delete_food_log"
  /\ lastOp.status = 200
  /\ food_logs # {}

\* --------------------------------------------- properties under SpecConc
\* the calls of the current round that answered 200 for user u
CallsDone(u) == {p \in Procs : pc[p] = "done" /\ loc[p].user_id = u /\ loc[p].status = 200}

\* streak_count after k log_food calls run one after the other on the same
\* day, from streak s, with (y) or without an entry for yesterday
RECURSIVE SeqStreak(_, _, _)
SeqStreak(s, y, k) ==
  IF k = 0 THEN s ELSE SeqStreak(StreakValue(s, TRUE, y), y, k - 1)

C8_BadgeReturnedOnce ==
  \A u \in DOMAIN users : \A p \in CallsDone(u), q \in CallsDone(u) :
    p # q => Range(loc[p].new_badges) \cap Range(loc[q].new_badges) = {}

\* ------------------------------------------------------------ listing
\* C11: the daily_totals of a get_food_logs response are the sums, rounded
\* to one decimal, of total_calories, protein, carbs and fat over all the
\* stored entries of the user that match the date filter, however many
\* entries there are.
C11_TotalsSumAllEntries ==
  (lastOp.op = "get_food_logs" /\ lastOp.status = 200)
    => lastOp.daily_totals =
         DailyTotals(Matching(food_logs, lastOp.user_id, lastOp.date_filter))

\* ----------------------------------------------------------- analysis
Analyzed == lastOp.op = "analyze_food" /\ lastOp.status = 200

\* C12: a weight_grams that is absent, zero or negative is replaced by 100
\* before analyze_food scales with it, so the weight it scales with is
\* always positive.
C12_WeightDefaultsTo100 ==
  Analyzed =>
    /\ (~lastOp.request.weight_grams.given \/ lastOp.request.weight_grams.value <= 0)
         => lastOp.body.weight_grams = 100
    /\ lastOp.body.weight_grams > 0

\* the per-100 g value log_food derives from the analysed portion is within
\* 0.1 kcal of the value the portion was scaled from
RoundTripWithinTenth ==
  LET back == CaloriesPer100g(lastOp.body.total_calories, lastOp.body.weight_grams)
  IN Abs(back.num - lastOp.body.calories_per_100g * back.den) <= 10 * back.den

\* C13 as stated: for every weight_grams > 0 scaling to the portion and
\* inverse-scaling as log_food does gives a value within 0.1 of the original
\* calories_per_100g.
C13_RoundTrip ==
  (Analyzed /\ lastOp.body.weight_grams > 0) => RoundTripWithinTenth

\* C13, amended: for every weight_grams >= 50 scaling to the portion and
\* inverse-scaling as log_food does gives a value within 0.1 of the original
\* calories_per_100g.
C13_RoundTripFrom50 ==
  (Analyzed /\ lastOp.body.weight_grams >= 50) => RoundTripWithinTenth

\* a portion of at least 50 g whose calories were changed by the rounding
C13_Witness ==
  /\ Analyzed
  /\ lastOp.body.weight_grams >= 50
  /\ lastOp.body.total_calories * 100
       # lastOp.body.calories_per_100g * lastOp.body.weight_grams

\* ------------------------------------------------------- calorie goal
\* four times the BMR the claim gives for a stored profile
ClaimedBmr4(user) ==
  IF Lower(user.gender) = "male"
    THEN 4 * (10 * user.weight - 5 * user.age + 5) + 25 * user.height
    ELSE 4 * (10 * user.weight - 5 * user.age - 161) + 25 * user.height

\* BMR times the activity multiplier, rounded to the nearest integer
ClaimedMaintenanceGoal(user) ==
  RoundHalfEven(ClaimedBmr4(user) * GetActivityMultiplier(user.activity_level), 160)

\* that TDEE plus (goal_weight - weight) * 7700 / 84, rounded
ClaimedAdjustedGoal(user) ==
  RoundHalfEven(ClaimedBmr4(user) * GetActivityMultiplier(user.activity_level) * 84
                  + (user.goal_weight.value - user.weight) * 7700 * 160,
                160 * 84)

BmrAsClaimed(user) ==
  CalculateBmr(user.weight, user.height, user.age, user.gender) = ClaimedBmr4(user)

IsExampleUser(user) ==
  /\ user.weight = 75 /\ user.height = 180 /\ user.age = 30
  /\ user.gender = "male" /\ user.activity_level = "moderately_active"
  /\ ~user.goal_weight.given

FailureKind(req) ==
  IF ~req.image_ok THEN "invalid_image"
  ELSE IF req.provider.kind = "unreachable" THEN "provider_unavailable"
  ELSE IF req.provider.kind = "unparseable" THEN "provider_parse_error"
  ELSE IF req.provider.kind = "ok" /\ req.provider.nutrition.foodName = <<>>
    THEN "no_food_detected"
  ELSE "other"

FailureKinds ==
  {"invalid_image", "provider_unavailable", "provider_parse_error", "no_food_detected"}

\* what the caller sees of the outcome of a request
Visible(req) ==
  <<AnalyzeFoodResult(req).outcome.status, AnalyzeFoodResult(req).outcome.detail>>

\* C15: a request that fails by an unreachable provider, an unparseable
\* provider response, no detected food or an invalid image is answered with
\* an error, and with a different one than a request of any other of these
\* kinds.
C15_FailureKindsDistinct ==
  (lastOp.op = "analyze_food" /\ FailureKind(lastOp.request) \in FailureKinds)
    => /\ lastOp.status # 200
       /\ \A other \in AnalysisRequests :
            FailureKind(other) \in FailureKinds \ {FailureKind(lastOp.request)}
              => Visible(other) # <<lastOp.status, lastOp.detail>>

\* C16: when the provider answers with zero recognised food items,
\* analyze_food reports a failure and returns no scaled record.
C16_NoFoodNoRecord ==
  (lastOp.op = "analyze_food" /\ FailureKind(lastOp.request) = "no_food_detected")
    => lastOp.status # 200

\* ------------------------------------------------- order within log_food
\* the awaits of log_food in the order of the code
Rank(label) ==
  CASE label = "idle" -> 0
    [] label = "inc_total" -> 1
    [] label = "streak_user" -> 2
    [] label = "streak_today" -> 3
    [] label = "streak_yesterday" -> 4
    [] label = "streak_write" -> 5
    [] label = "badge_user" -> 6
    [] label = "badge_write" -> 7
    [] label = "respond" -> 8
    [] label = "done" -> 9

\* the entry of the call p is stored
EntryStored(p) ==
  \E l \in food_logs : l.log_id = loc[p].log_id /\ l.user_id = loc[p].user_id

\* what a step of SpecConc may do to the calls, the store and the profiles
LogFoodOrderStep ==
  /\ \A p \in Procs :
      /\ (pc'[p] # pc[p] /\ pc'[p] # "idle") => Rank(pc'[p]) > Rank(pc[p])
      /\ (pc[p] = "idle" /\ pc'[p] = "done")
           => /\ loc'[p].status = 500
              /\ food_logs' = food_logs
              /\ users' = users
      /\ (pc[p] = "idle" /\ pc'[p] \notin {"idle", "done"})
           => /\ pc'[p] = "inc_total"
              /\ food_logs' # food_logs
              /\ users' = users
  /\ \A u \in DOMAIN users :
      users'[u] # users[u]
        => \E p \in Procs :
             /\ pc'[p] # pc[p]
             /\ loc[p].user_id = u
             /\ EntryStored(p)
             /\ \/ /\ pc[p] = "inc_total"
                   /\ users'[u] = [users[u] EXCEPT !.total_foods_logged = @ + 1]
                \/ /\ pc[p] = "streak_write"
                   /\ users'[u] = [users[u] EXCEPT !.streak_count = users'[u].streak_count]
                \/ /\ pc[p] = "badge_write"
                   /\ users'[u] = [users[u] EXCEPT !.badges = users'[u].badges]

\* C17: a log_food call stores its entry, then increments
\* total_foods_logged, then recomputes the streak, then evaluates the
\* badges: a call only moves forward through these steps, a profile field
\* is modified only by the step it belongs to and only after the entry of
\* the call is stored, and a call that fails before storing its entry
\* leaves the log store and every profile unchanged.
C17_LogFoodOrder == [][LogFoodOrderStep]_vars

\* one call has failed on weight_grams = 0 and another call, of a registered
\* user, has gone through every step and stored a badge
C17_Witness ==
  \E p, q \in Procs :
    /\ pc[p] = "done" /\ loc[p].status = 500
    /\ pc[q] = "done" /\ loc[q].status = 200 /\ loc[q].new_badges # <<>>
    /\ loc[q].user_id \in DOMAIN users

\* -------------------------------------------------------------- badges
\* every profile is kept, with every badge it has
BadgesKept ==
  \A u \in DOMAIN users :
    /\ u \in DOMAIN users'
    /\ Range(users[u].badges) \subseteq Range(users'[u].badges)

\* C18: over register, log-food, delete-food-log and read operations a
\* badge id stored for a user stays stored in every later state.
C18_BadgesOnlyGrow == [][BadgesKept]_vars

\* a user still holds a badge after the last entry was deleted
C18_Witness ==
  /\ lastOp.op = "delete_food_log" /\ lastOp.status = 200
  /\ \E u \in DOMAIN users :
       "first_log" \in Range(users[u].badges) /\ ListLogs(food_logs, u) = {}

\* ------------------------------------------------------------ counters
\* the request just served is a successful log_food call of u
LoggedBy(u) ==
  lastOp'.op = "log_food" /\ lastOp'.user_id = u /\ lastOp'.status = 200

CountersFrame ==
  \A u \in DOMAIN users :
    /\ users'[u].total_foods_logged # users[u].total_foods_logged => LoggedBy(u)
    /\ users'[u].streak_count # users[u].streak_count => LoggedBy(u)
    /\ LoggedBy(u) => users'[u].total_foods_logged = users[u].total_foods_logged + 1
    /\ users'[u].total_foods_logged >= users[u].total_foods_logged
    /\ lastOp'.op \in {"delete_food_log", "get_food_logs", "get_user_stats", "analyze_food"}
         => /\ users'[u].total_foods_logged = users[u].total_foods_logged
            /\ users'[u].streak_count = users[u].streak_count

\* C19: total_foods_logged of a registered user is changed only by that
\* user's successful log-food calls, by +1 each, and never decreases;
\* streak_count is changed only within that user's log-food calls;
\* delete-food-log, get-food-logs, user-stats, analyze-food and the
\* requests of other users leave both unchanged.
C19_CountersFrame == [][CountersFrame]_vars

\* an entry of a user was deleted and the counter still counts it
C19_Witness ==
  /\ lastOp.op = "delete_food_log" /\ lastOp.status = 200
  /\ \E u \in DOMAIN users :
       users[u].total_foods_logged > Cardinality(ListLogs(food_logs, u))

\* ------------------------------------------------- badge thresholds
\* the profile meets the threshold of the badge
Meets(user, badge) ==
  CASE badge = "first_log" -> user.total_foods_logged >= 1
    [] badge = "week_warrior" -> user.streak_count >= 7
    [] badge = "month_master" -> user.streak_count >= 30
    [] badge = "century_tracker" -> user.total_foods_logged >= 100

\* after a completed log_food call of a registered user the stored badges
\* cover every threshold the profile meets
BadgesCoverThresholds ==
  (lastOp.op = "log_food" /\ lastOp.status = 200 /\ lastOp.user_id \in DOMAIN users)
    => \A b \in BadgeIds :
         Meets(users[lastOp.user_id], b) => b \in Range(users[lastOp.user_id].badges)

\* a badge is stored only by a step after which the profile meets its threshold
BadgeStoredWhenMet ==
  \A u \in DOMAIN users' :
    \A b \in Range(users'[u].badges) :
      (u \in DOMAIN users /\ b \in Range(users[u].badges)) \/ Meets(users'[u], b)

\* C20: after every completed log-food call of a registered user the stored
\* badges cover every threshold the profile meets (total_foods_logged >= 1:
\* first_log, streak_count >= 7: week_warrior, streak_count >= 30:
\* month_master, total_foods_logged >= 100: century_tracker), and no badge
\* is stored whose threshold the profile never met.
C20_BadgesMatchThresholds ==
  []BadgesCoverThresholds /\ [][BadgeStoredWhenMet]_vars

\* a log_food call after which the profile holds all four badges
C20_Witness ==
  /\ lastOp.op = "log_food" /\ lastOp.status = 200
  /\ \E u \in DOMAIN users :
       /\ lastOp.user_id = u
       /\ users[u].total_foods_logged >= 100
       /\ users[u].streak_count >= 30
       /\ Range(users[u].badges) = BadgeIds

\* ------------------------------------------------------- registration
UniqueEmails ==
  \A u, v \in DOMAIN users : users[u].email = users[v].email => u = v

\* a register call for an email that is registered is rejected and adds no user
RejectsRegistered ==
  \A p \in Procs :
    (pc[p] = "idle" /\ pc'[p] # "idle" /\ EmailRegistered(users, loc'[p].data.email))
      => /\ pc'[p] = "done"
         /\ loc'[p].status # 200
         /\ users' = users

\* C21: the users collection never holds two users with the same email,
\* also when register calls for one email interleave between the
\* existence check and the insert; a register call for a registered email
\* is rejected and adds no user.
C21_UniqueEmails == []UniqueEmails /\ [][RejectsRegistered]_vars

\* ------------------------------------------------------- civil days
\* the streak update counts entry l as logged on day d
CountedOn(l, d) == HasLogOn({l}, l.user_id, d)

\* C22: after a listing with date_filter = D, every stored entry of the
\* user that the streak update counts as logged on day D, entries of the
\* last second of D included, is among the entries the listing returns.
C22_SameDayBuckets ==
  (lastOp.op = "get_food_logs" /\ lastOp.status = 200 /\ lastOp.date_filter.given)
    => \A l \in ListLogs(food_logs, lastOp.user_id) :
         CountedOn(l, lastOp.date_filter.day)
           => \A L \in Cursors(Matching(food_logs, lastOp.user_id, lastOp.date_filter)) :
                l \in L

\* ------------------------------------------------------- the display
\* every store_nutrition_display call has completed
AllCompleted == \A p \in Procs : ~InFlight(p)

\* the records stored at least as late as s, s apart
NotOlder(s) == {x \in stored : x # s /\ x.stored_at >= s.stored_at}

LatestStored(r) == r \in stored /\ \A x \in stored : x.stored_at <= r.stored_at

\* at most DisplayLimit records are held once the calls have completed; a
\* record that was dropped is not newer than one that is held, and a record
\* with fewer than DisplayLimit records stored as late as itself is held
DisplayHoldsLatest ==
  /\ nutrition_display \subseteq stored
  /\ AllCompleted => Cardinality(nutrition_display) <= DisplayLimit
  /\ \A s \in stored \ nutrition_display :
       /\ \A h \in nutrition_display : s.stored_at <= h.stored_at
       /\ Cardinality(NotOlder(s)) >= DisplayLimit

\* lcd-display answers no_data exactly when nothing was ever stored, and
\* otherwise with the fields of a record with the latest stored_at
LcdReturnsLatest ==
  GetNutritionForLcd =>
    /\ lastOp'.status = 200
    /\ lastOp'.display_status = "no_data" <=> stored = {}
    /\ lastOp'.display_status # "no_data" =>
         /\ lastOp'.display_status = "success"
         /\ \E r \in stored :
              LatestStored(r) /\ lastOp'.nutrition = ExampleDisplay(r.analyzed_at)

\* C23: after any sequence of completed store-nutrition-display calls,
\* interleaved ones included, nutrition_display holds at most 10 records
\* and they are the most recently stored ones; lcd-display returns the
\* record with the latest stored_at, or status no_data exactly when
\* nothing was ever stored.
C23_DisplayKeepsLatest == []DisplayHoldsLatest /\ [][LcdReturnsLatest]_vars

\* two calls that read one millisecond have completed together, the
\* cleanup has dropped one of two records of one stored_at, and the
\* display has read the latest record
C23_Witness ==
  /\ \A p \in Procs : pc[p] = "done"
  /\ Cardinality(stored) = DisplayLimit + 1
  /\ Cardinality(nutrition_display) = DisplayLimit
  /\ \E s \in stored \ nutrition_display, h \in nutrition_display :
       s.stored_at = h.stored_at
  /\ \E a, b \in nutrition_display : a # b /\ LatestStored(a) /\ LatestStored(b)
  /\ lastOp.op = "lcd_display"
  /\ lastOp.display_status = "success"
  /\ \E r \in nutrition_display :
       LatestStored(r) /\ lastOp.nutrition = ExampleDisplay(r.analyzed_at)

====
